---- MODULE Spec2Model ----
(***************************************************************************)
(* State machine of fhirclient/auth.py: the authorization strategies       *)
(* FHIRAuth (auth_type 'none') and FHIROAuth2Auth (auth_type 'oauth2').    *)
(*                                                                         *)
(* One strategy instance is modelled.  Its instance variables are the      *)
(* variables klass .. refresh_token.  The variables op, ret, posted and    *)
(* saved observe the last operation: its name, what it returned or raised, *)
(* the form POST it handed to server.post_as_form (if any) and how often   *)
(* it called server.should_save_state; callback observes the URL the last  *)
(* handle_callback was given, as the kind of value it was and the args     *)
(* parsed from its query.  Two history variables: redeemed is              *)
(* the set of nonces against which a callback has been exchanged           *)
(* successfully; shown is the state parameter of the URL the latest read   *)
(* of authorize_uri returned, None again after a reset or a callback.      *)
(* auth_classes is the registry FHIRAuth.auth_classes; arg observes the    *)
(* argument of the last from_state, signed_headers, register or create.    *)
(* create replaces the strategy by the instance it returns.                *)
(*                                                                         *)
(* Python values: None is the string "<None>" (no token, nonce or URL of   *)
(* the model is that string); a dict is a function whose domain is the set *)
(* of its keys; a list of (key, value) pairs is a sequence of pairs.       *)
(***************************************************************************)
EXTENDS Integers, Sequences, FiniteSets, TLC

VARIABLES klass, app_id, scope, _registration_uri, _authorize_uri,
          _redirect_uri, _token_uri, auth_state, access_token, refresh_token,
          auth_classes, op, arg, ret, posted, saved, callback, redeemed, shown,
          stale

vars == <<klass, app_id, scope, _registration_uri, _authorize_uri,
          _redirect_uri, _token_uri, auth_state, access_token, refresh_token,
          auth_classes, op, arg, ret, posted, saved, callback, redeemed, shown,
          stale>>

fields == <<klass, app_id, scope, _registration_uri, _authorize_uri,
            _redirect_uri, _token_uri, auth_state, access_token, refresh_token>>

None == "<None>"

\* Longest callback query string, in key=value pairs.
MaxQuery == 2

(***************************************************************************)
(* Input domains.                                                          *)
(***************************************************************************)
\* str(uuid.uuid4())[:8]: the values a mint can produce.
Nonces == {"n1", "n2"}

AccessTokens == {"t1", ""}

RefreshTokens == {"r1"}

Codes == {"c1"}

ErrorCodes == {"access_denied", "teapot"}

Descriptions == {"a+b"}

(***************************************************************************)
(* Python helpers.                                                         *)
(***************************************************************************)
\* d.get(k)
get(d, k) == IF k \in DOMAIN d THEN d[k] ELSE None

\* Truthiness of a str-or-None value.
truthy(v) == v # None /\ v # ""

\* a or b
or(a, b) == IF truthy(a) THEN a ELSE b

\* "{}".format(v)
format(v) == IF v = None THEN "None" ELSE v

\* del d[k] for every k in ks
without(d, ks) == [k \in (DOMAIN d) \ ks |-> d[k]]

\* d.update(e)
update(d, e) == [k \in (DOMAIN d) \cup (DOMAIN e) |->
                    IF k \in DOMAIN e THEN e[k] ELSE d[k]]

\* dict(pairs): the last pair of a key wins.
dict(pairs) ==
    [k \in {pairs[i][1] : i \in DOMAIN pairs} |->
        LET last == CHOOSE i \in DOMAIN pairs :
                        /\ pairs[i][1] = k
                        /\ \A j \in DOMAIN pairs : pairs[j][1] = k => j <= i
        IN pairs[last][2]]

\* urlparse.parse_qsl(qs): pairs in order, blank values dropped
\* (keep_blank_values defaults to False).
parse_qsl(qs) == SelectSeq(qs, LAMBDA p : p[2] # "")

\* urlparse.parse_qs(qs): key -> list of its values, in order.
parse_qs(qs) ==
    LET kept == parse_qsl(qs)
    IN [k \in {kept[i][1] : i \in DOMAIN kept} |->
            LET of_k == SelectSeq(kept, LAMBDA p : p[1] = k)
            IN [i \in DOMAIN of_k |-> of_k[i][2]]]

\* urlparse.urlsplit(u), on the model's authorize endpoints: the URL up to
\* the query, and the query as key=value pairs.
urlsplit(u) ==
    CASE u = "https://a/auth" ->
            [base |-> "https://a/auth", query |-> <<>>]
      [] u = "https://a/auth?aud=x&state=zz" ->
            [base |-> "https://a/auth",
             query |-> <<(<<"aud", "x">>), (<<"state", "zz">>)>>]

\* s.replace('+', ' '), on the model's error descriptions.
replace_plus(s) == CASE s = "a+b" -> "a b" [] OTHER -> s

(***************************************************************************)
(* Results of an operation.                                                *)
(***************************************************************************)
Return(kind, val) == [kind |-> kind, val |-> val]

Raise(msg) == [kind |-> "raise", val |-> msg]

ReturnNone == Return("None", None)

NoPost == [made |-> FALSE]

NoCallback == [kind |-> "-"]
\* No argument recorded for the last call.
NoArg == [kind |-> "-"]

\* The history variable stale follows chosen nonces: "-" at first and when
\* _authorize_params mints the nonce, "reset" once reset() was called while
\* it was the pending auth_state, "imported" once from_state made it pending
\* again after that.  NoStale follows no nonce.
NoStale == <<>>
mark(st, n, v) == IF n \in DOMAIN st THEN [st EXCEPT ![n] = v] ELSE st

\* A call of server.post_as_form(uri, params) and what came of it.
Post(uri, params, outcome) ==
    [made |-> TRUE, uri |-> uri, params |-> params, reply |-> outcome]

(***************************************************************************)
(* FHIRAuth / FHIROAuth2Auth: properties.                                  *)
(***************************************************************************)
\* FHIRAuth.ready, FHIROAuth2Auth.ready
ready ==
    IF klass # "FHIROAuth2Auth" THEN TRUE
    ELSE IF truthy(access_token) THEN TRUE ELSE FALSE

\* FHIRAuth.can_sign_headers, FHIROAuth2Auth.can_sign_headers
can_sign_headers ==
    IF klass # "FHIROAuth2Auth" THEN FALSE
    ELSE IF access_token # None THEN TRUE ELSE FALSE

state_mut ==
    [app_id |-> app_id, scope |-> scope,
     registration_uri |-> _registration_uri,
     authorize_uri |-> _authorize_uri,
     redirect_uri |-> _redirect_uri,
     token_uri |-> _token_uri,
     auth_state |-> auth_state,
     access_token |-> access_token,
     refresh_token |-> refresh_token]

\* FHIRAuth.state, FHIROAuth2Auth.state: the exported state.
state ==
    LET s0 == [k \in {"app_id"} |-> app_id]
        s1 == update(s0, [scope |-> scope,
                          registration_uri |-> _registration_uri,
                          authorize_uri |-> _authorize_uri,
                          redirect_uri |-> _redirect_uri,
                          token_uri |-> _token_uri])
        s2 == IF auth_state # None
              THEN update(s1, [auth_state |-> auth_state]) ELSE s1
        s3 == IF access_token # None
              THEN update(s2, [access_token |-> access_token]) ELSE s2
        s4 == IF refresh_token # None
              THEN update(s3, [refresh_token |-> refresh_token]) ELSE s3
    IN IF klass # "FHIROAuth2Auth" THEN s0 ELSE s4

(***************************************************************************)
(* The registry FHIRAuth.auth_classes.                                     *)
(***************************************************************************)
\* The classes handed to register(): the two of this module, a further
\* subclass of FHIRAuth that declares auth_type 'oauth2', one that declares
\* 'basic', and one whose auth_type is None.
Classes ==
    {"FHIRAuth", "FHIROAuth2Auth", "OtherOAuth2Auth", "BasicAuth", "UntypedAuth"}

\* cls.auth_type
auth_type(cls) ==
    CASE cls = "FHIRAuth" -> "none"
      [] cls = "FHIROAuth2Auth" -> "oauth2"
      [] cls = "OtherOAuth2Auth" -> "oauth2"
      [] cls = "BasicAuth" -> "basic"
      [] cls = "UntypedAuth" -> None

\* auth_classes = {} in the class body.
NoClasses == [t \in {} |-> None]

\* auth_classes after FHIRAuth.register() and FHIROAuth2Auth.register() at
\* module load.
Loaded == [none |-> "FHIRAuth", oauth2 |-> "FHIROAuth2Auth"]

\* A mapping argument that is None, and one that is the mapping m.
NoMap == [none |-> TRUE]
Map(m) == [none |-> FALSE, map |-> m]

(***************************************************************************)
(* Construction.                                                           *)
(***************************************************************************)
\* FHIRAuth.create(auth_type, server, None) after the two register() calls
\* at module load: 'none' (or an empty tag) builds FHIRAuth, 'oauth2'
\* builds FHIROAuth2Auth; every instance variable starts as None.
Init ==
    /\ klass \in {"FHIRAuth", "FHIROAuth2Auth"}
    /\ app_id = None
    /\ scope = None
    /\ _registration_uri = None
    /\ _authorize_uri = None
    /\ _redirect_uri = None
    /\ _token_uri = None
    /\ auth_state = None
    /\ access_token = None
    /\ refresh_token = None
    /\ auth_classes = Loaded
    /\ op = "create"
    /\ arg = [auth_type |-> auth_type(klass), state |-> NoMap]
    /\ ret = Return("instance", klass)
    /\ posted = NoPost
    /\ saved = 0
    /\ callback = NoCallback
    /\ redeemed = {}
    /\ shown = None
    /\ stale = NoStale

(***************************************************************************)
(* reset()                                                                 *)
(***************************************************************************)
reset_mut ==
    /\ op' = "reset"
    /\ arg' = NoArg
    /\ UNCHANGED auth_classes
    /\ stale' = mark(stale, auth_state, "reset")
    /\ callback' = NoCallback
    /\ ret' = ReturnNone
    /\ posted' = NoPost
    /\ saved' = 0
    /\ IF klass = "FHIRAuth"
       THEN UNCHANGED <<access_token, auth_state, refresh_token>>
       ELSE /\ access_token' = None
            /\ auth_state' = None
            /\ refresh_token' = None
    /\ UNCHANGED <<klass, app_id, scope, _registration_uri, _authorize_uri,
                   _redirect_uri, _token_uri, redeemed>>
    /\ shown' = None

reset_mut_nonce ==
    /\ op' = "reset"
    /\ arg' = NoArg
    /\ UNCHANGED auth_classes
    /\ stale' = mark(stale, auth_state, "reset")
    /\ callback' = NoCallback
    /\ ret' = ReturnNone
    /\ posted' = NoPost
    /\ saved' = 0
    /\ IF klass = "FHIRAuth"
       THEN UNCHANGED <<access_token, auth_state>>
       ELSE /\ access_token' = None
            /\ UNCHANGED auth_state
    /\ UNCHANGED <<klass, app_id, scope, _registration_uri, _authorize_uri,
                   _redirect_uri, _token_uri, refresh_token, redeemed>>
    /\ shown' = None

\* FHIRAuth.reset, FHIROAuth2Auth.reset
reset ==
    /\ op' = "reset"
    /\ arg' = NoArg
    /\ UNCHANGED auth_classes
    /\ stale' = mark(stale, auth_state, "reset")
    /\ callback' = NoCallback
    /\ ret' = ReturnNone
    /\ posted' = NoPost
    /\ saved' = 0
    /\ IF klass = "FHIRAuth"
       THEN UNCHANGED <<access_token, auth_state>>
       ELSE /\ access_token' = None
            /\ auth_state' = None
    /\ UNCHANGED <<klass, app_id, scope, _registration_uri, _authorize_uri,
                   _redirect_uri, _token_uri, refresh_token, redeemed>>
    /\ shown' = None

(***************************************************************************)
(* authorize_uri (property getter) and _authorize_params()                 *)
(***************************************************************************)
\* The dict _authorize_params returns once auth_state is st.
_authorize_params(st) ==
    [client_id |-> app_id,
     response_type |-> "code",
     scope |-> scope,
     state |-> st,
     redirect_uri |-> _redirect_uri]

\* urlencode renders every value of the computed parameters with str().
urlencode(params) == [k \in DOMAIN params |-> format(params[k])]

pending_mut(n) == n

\* _authorize_params: the nonce after "if self.auth_state is None:
\* self.auth_state = str(uuid.uuid4())[:8]", n being the fresh value.
pending(n) == IF auth_state = None THEN n ELSE auth_state

authorize_uri_mut ==
    /\ op' = "authorize_uri"
    /\ arg' = NoArg
    /\ UNCHANGED auth_classes
    /\ callback' = NoCallback
    /\ posted' = NoPost
    /\ IF klass = "FHIRAuth"
       THEN /\ ret' = ReturnNone
            /\ saved' = 0
            /\ UNCHANGED auth_state
       ELSE \E n \in Nonces :
            /\ auth_state' = pending(n)
            /\ saved' = 1
            /\ ret' =
                 IF _authorize_uri = None
                 THEN \* urlunsplit of the bytes parts of urlsplit(None)
                      \* and a str query
                      Raise("Cannot mix str and non-str arguments")
                 ELSE LET parts == urlsplit(_authorize_uri)
                          auth_params == _authorize_params(auth_state')
                          merged == IF Len(parts.query) > 0
                                    THEN update(parse_qs(parts.query),
                                                urlencode(auth_params))
                                    ELSE urlencode(auth_params)
                      IN Return("url", [base |-> parts.base,
                                        params |-> merged])
    /\ UNCHANGED <<klass, app_id, scope, _registration_uri, _authorize_uri,
                   _redirect_uri, _token_uri, access_token, refresh_token,
                   redeemed>>
    /\ shown' = IF ret'.kind = "url" THEN ret'.val.params["state"] ELSE shown
    /\ stale' = IF auth_state' # auth_state
                THEN mark(stale, auth_state', "-") ELSE stale

\* authorize_uri: one read of the property.
authorize_uri ==
    /\ op' = "authorize_uri"
    /\ arg' = NoArg
    /\ UNCHANGED auth_classes
    /\ callback' = NoCallback
    /\ posted' = NoPost
    /\ IF klass = "FHIRAuth"
       THEN /\ ret' = ReturnNone
            /\ saved' = 0
            /\ UNCHANGED auth_state
       ELSE \E n \in Nonces :
            /\ auth_state' = pending(n)
            /\ saved' = IF auth_state = None THEN 1 ELSE 0
            /\ ret' =
                 IF _authorize_uri = None
                 THEN \* urlunsplit of the bytes parts of urlsplit(None)
                      \* and a str query
                      Raise("Cannot mix str and non-str arguments")
                 ELSE LET parts == urlsplit(_authorize_uri)
                          auth_params == _authorize_params(auth_state')
                          merged == IF Len(parts.query) > 0
                                    THEN update(parse_qs(parts.query),
                                                urlencode(auth_params))
                                    ELSE urlencode(auth_params)
                      IN Return("url", [base |-> parts.base,
                                        params |-> merged])
    /\ UNCHANGED <<klass, app_id, scope, _registration_uri, _authorize_uri,
                   _redirect_uri, _token_uri, access_token, refresh_token,
                   redeemed>>
    /\ shown' = IF ret'.kind = "url" THEN ret'.val.params["state"] ELSE shown
    /\ stale' = IF auth_state' # auth_state
                THEN mark(stale, auth_state', "-") ELSE stale

(***************************************************************************)
(* The server collaborator's answers to post_as_form.                      *)
(***************************************************************************)
RespVals(k) ==
    CASE k = "access_token" -> AccessTokens
      [] k = "expires_in" -> {"3600"}
      [] k = "refresh_token" -> RefreshTokens
      [] k = "patient" -> {"123"}

RespKeys == {"access_token", "expires_in", "refresh_token", "patient"}

\* Every mapping over a subset of RespKeys with string values.
Responses ==
    LET all == UNION {RespVals(k) : k \in RespKeys}
    IN {r \in UNION {[D -> all] : D \in SUBSET RespKeys} :
            \A k \in DOMAIN r : r[k] \in RespVals(k)}

\* post_as_form raises, or returns a mapping.
Outcomes ==
    {[raised |-> TRUE]} \cup {[raised |-> FALSE, resp |-> r] : r \in Responses}

(***************************************************************************)
(* _request_access_token(params)                                           *)
(***************************************************************************)
_request_access_token_mut(params, outcome) ==
    /\ posted' = Post(_token_uri, params, outcome)
    /\ IF outcome.raised
       THEN /\ ret' = Raise("post_as_form raised")
            /\ UNCHANGED <<access_token, refresh_token>>
       ELSE LET ret_params == outcome.resp
            IN /\ access_token' = get(ret_params, "access_token")
               /\ IF access_token' = None
                  THEN /\ ret' = Raise("No access token received")
                       /\ UNCHANGED refresh_token
                  ELSE LET r1 == without(ret_params, {"access_token"})
                           r3 == IF refresh_token' # None
                                 THEN without(r1, {"refresh_token"}) ELSE r1
                       IN /\ refresh_token' = get(r1, "refresh_token")
                          /\ ret' = Return("dict", r3)

_request_access_token(params, outcome) ==
    /\ posted' = Post(_token_uri, params, outcome)
    /\ IF outcome.raised
       THEN /\ ret' = Raise("post_as_form raised")
            /\ UNCHANGED <<access_token, refresh_token>>
       ELSE LET ret_params == outcome.resp
            IN /\ access_token' = get(ret_params, "access_token")
               /\ IF access_token' = None
                  THEN /\ ret' = Raise("No access token received")
                       /\ UNCHANGED refresh_token
                  ELSE LET r1 == without(ret_params, {"access_token"})
                           r2 == IF "expires_in" \in DOMAIN r1
                                 THEN without(r1, {"expires_in"}) ELSE r1
                           r3 == IF refresh_token' # None
                                 THEN without(r2, {"refresh_token"}) ELSE r2
                       IN /\ refresh_token' = get(r2, "refresh_token")
                          /\ ret' = Return("dict", r3)

(***************************************************************************)
(* handle_callback(url)                                                    *)
(***************************************************************************)
QueryPairs ==
    {<<"state", v>> : v \in Nonces \cup {""}}
    \cup {<<"code", v>> : v \in Codes}
    \cup {<<"error", v>> : v \in ErrorCodes}
    \cup {<<"error_description", v>> : v \in Descriptions}

Queries == UNION {[1..n -> QueryPairs] : n \in 0..MaxQuery}

\* url is None, something urlsplit cannot parse (not a string), or a URL
\* with the given query.
CallbackUrls ==
    {[kind |-> "None"], [kind |-> "unparsable"]}
    \cup {[kind |-> "str", query |-> q] : q \in Queries}

extract_oauth_error_mut(args) ==
    IF "error_description" \in DOMAIN args
    THEN replace_plus(args["error_description"])
    ELSE IF "error" \in DOMAIN args
    THEN LET err_code == args["error"]
         IN CASE err_code = "invalid_request" -> "The request is missing a required parameter, includes an invalid parameter value, includes a parameter more than once, or is otherwise malformed."
              [] err_code = "unauthorized_client" -> "The client is not authorized to request an access token using this method."
              [] OTHER -> "Authorization error: " \o err_code \o "."
    ELSE None

\* extract_oauth_error(args)
extract_oauth_error(args) ==
    IF "error_description" \in DOMAIN args
    THEN replace_plus(args["error_description"])
    ELSE IF "error" \in DOMAIN args
    THEN LET err_code == args["error"]
         IN CASE err_code = "invalid_request" -> "The request is missing a required parameter, includes an invalid parameter value, includes a parameter more than once, or is otherwise malformed."
              [] err_code = "unauthorized_client" -> "The client is not authorized to request an access token using this method."
              [] err_code = "access_denied" -> "The resource owner or authorization server denied the request."
              [] err_code = "unsupported_response_type" -> "The authorization server does not support obtaining an access token using this method."
              [] err_code = "invalid_scope" -> "The requested scope is invalid, unknown, or malformed."
              [] err_code = "server_error" -> "The authorization server encountered an unexpected condition that prevented it from fulfilling the request."
              [] err_code = "temporarily_unavailable" -> "The authorization server is currently unable to handle the request due to a temporary overloading or maintenance of the server."
              [] OTHER -> "Authorization error: " \o err_code \o "."
    ELSE None

\* The message of the state check, up to its "Have: {}, want: {}" tail.
InvalidStateMsg == "Invalid state, will not use this code."

_code_exchange_params_mut(code) ==
    [client_id |-> app_id,
     code |-> code,
     grant_type |-> "authorization_code",
     redirect_uri |-> _redirect_uri,
     state |-> auth_state,
     scope |-> scope]

\* _code_exchange_params(code)
_code_exchange_params(code) ==
    [client_id |-> app_id,
     code |-> code,
     grant_type |-> "authorization_code",
     redirect_uri |-> _redirect_uri,
     state |-> auth_state]

\* An operation that raises before it touches the tokens or the server.
raises(msg) ==
    /\ ret' = Raise(msg)
    /\ posted' = NoPost
    /\ UNCHANGED <<access_token, refresh_token, redeemed>>

\* args = dict(urlparse.parse_qsl(urlparse.urlsplit(url)[3]))
args_of(url) == dict(parse_qsl(url.query))

invalid_state_mut(stt) == stt = None

invalid_state_mut_pending(stt) ==
    stt = None \/ (auth_state # None /\ auth_state # stt)

\* stt is None or self.auth_state != stt
invalid_state(stt) == stt = None \/ auth_state # stt

handle_callback_mut(url) ==
    /\ op' = "handle_callback"
    /\ arg' = NoArg
    /\ UNCHANGED <<auth_classes, stale>>
    /\ saved' = 0
    /\ callback' = [kind |-> url.kind,
                    args |-> IF url.kind = "str" THEN args_of(url) ELSE <<>>]
    /\ IF klass = "FHIRAuth"
       THEN raises("cannot handle callback URL")
       ELSE IF url.kind = "None"
       THEN raises("No callback URL received")
       ELSE IF url.kind = "unparsable"
       THEN raises("Invalid callback URL")
       ELSE LET args == args_of(url)
                err == extract_oauth_error(args)
                stt == get(args, "state")
                code == get(args, "code")
            IN IF invalid_state(stt)
               THEN raises(InvalidStateMsg)
               ELSE IF err # None
               THEN raises(err)
               ELSE IF code = None
               THEN raises("Did not receive a code")
               ELSE \E outcome \in Outcomes :
                    /\ _request_access_token(_code_exchange_params(code),
                                             outcome)
                    /\ redeemed' = IF ret'.kind = "dict"
                                   THEN redeemed \cup {auth_state}
                                   ELSE redeemed
    /\ UNCHANGED <<klass, app_id, scope, _registration_uri, _authorize_uri,
                   _redirect_uri, _token_uri, auth_state>>
    /\ shown' = IF klass = "FHIRAuth" THEN shown ELSE None

handle_callback_mut_clear(url) ==
    /\ op' = "handle_callback"
    /\ arg' = NoArg
    /\ UNCHANGED <<auth_classes, stale>>
    /\ saved' = 0
    /\ callback' = [kind |-> url.kind,
                    args |-> IF url.kind = "str" THEN args_of(url) ELSE <<>>]
    /\ IF klass = "FHIRAuth"
       THEN raises("cannot handle callback URL")
       ELSE IF url.kind = "None"
       THEN raises("No callback URL received")
       ELSE IF url.kind = "unparsable"
       THEN raises("Invalid callback URL")
       ELSE LET args == args_of(url)
                err == extract_oauth_error(args)
                stt == get(args, "state")
                code == get(args, "code")
            IN IF err # None
               THEN raises(err)
               ELSE IF invalid_state(stt)
               THEN raises(InvalidStateMsg)
               ELSE IF code = None
               THEN raises("Did not receive a code")
               ELSE \E outcome \in Outcomes :
                    /\ _request_access_token(_code_exchange_params(code),
                                             outcome)
                    /\ redeemed' = IF ret'.kind = "dict"
                                   THEN redeemed \cup {auth_state}
                                   ELSE redeemed
    /\ UNCHANGED <<klass, app_id, scope, _registration_uri, _authorize_uri,
                   _redirect_uri, _token_uri>>
    /\ auth_state' = IF ret'.kind = "dict" THEN None ELSE auth_state
    /\ shown' = IF klass = "FHIRAuth" THEN shown ELSE None

\* handle_callback(url)
handle_callback(url) ==
    /\ op' = "handle_callback"
    /\ arg' = NoArg
    /\ UNCHANGED <<auth_classes, stale>>
    /\ saved' = 0
    /\ callback' = [kind |-> url.kind,
                    args |-> IF url.kind = "str" THEN args_of(url) ELSE <<>>]
    /\ IF klass = "FHIRAuth"
       THEN raises("cannot handle callback URL")
       ELSE IF url.kind = "None"
       THEN raises("No callback URL received")
       ELSE IF url.kind = "unparsable"
       THEN raises("Invalid callback URL")
       ELSE LET args == args_of(url)
                err == extract_oauth_error(args)
                stt == get(args, "state")
                code == get(args, "code")
            IN IF err # None
               THEN raises(err)
               ELSE IF invalid_state(stt)
               THEN raises(InvalidStateMsg)
               ELSE IF code = None
               THEN raises("Did not receive a code")
               ELSE \E outcome \in Outcomes :
                    /\ _request_access_token(_code_exchange_params(code),
                                             outcome)
                    /\ redeemed' = IF ret'.kind = "dict"
                                   THEN redeemed \cup {auth_state}
                                   ELSE redeemed
    /\ UNCHANGED <<klass, app_id, scope, _registration_uri, _authorize_uri,
                   _redirect_uri, _token_uri, auth_state>>
    /\ shown' = IF klass = "FHIRAuth" THEN shown ELSE None

(***************************************************************************)
(* reauthorize() and _reauthorize_params()                                 *)
(***************************************************************************)
\* _reauthorize_params(), called with a refresh token held.
_reauthorize_params ==
    [client_id |-> app_id,
     grant_type |-> "refresh_token",
     refresh_token |-> refresh_token]

reauthorize_mut ==
    /\ op' = "reauthorize"
    /\ arg' = NoArg
    /\ UNCHANGED <<auth_classes, stale>>
    /\ callback' = NoCallback
    /\ saved' = 0
    /\ IF klass = "FHIRAuth"
       THEN /\ ret' = ReturnNone
            /\ posted' = NoPost
            /\ UNCHANGED <<access_token, refresh_token>>
       ELSE \E outcome \in Outcomes :
                _request_access_token(_reauthorize_params, outcome)
    /\ UNCHANGED <<klass, app_id, scope, _registration_uri, _authorize_uri,
                   _redirect_uri, _token_uri, auth_state, redeemed, shown>>

reauthorize ==
    /\ op' = "reauthorize"
    /\ arg' = NoArg
    /\ UNCHANGED <<auth_classes, stale>>
    /\ callback' = NoCallback
    /\ saved' = 0
    /\ IF klass = "FHIRAuth" \/ refresh_token = None
       THEN /\ ret' = ReturnNone
            /\ posted' = NoPost
            /\ UNCHANGED <<access_token, refresh_token>>
       ELSE \E outcome \in Outcomes :
                _request_access_token(_reauthorize_params, outcome)
    /\ UNCHANGED <<klass, app_id, scope, _registration_uri, _authorize_uri,
                   _redirect_uri, _token_uri, auth_state, redeemed, shown>>

(***************************************************************************)
(* from_state(state)                                                       *)
(***************************************************************************)
SecretVals(k) ==
    CASE k = "auth_state" -> Nonces \cup {""}
      [] k = "access_token" -> AccessTokens
      [] k = "refresh_token" -> RefreshTokens \cup {""}

SecretKeys == {"auth_state", "access_token", "refresh_token"}

\* Every mapping over a subset of the three secrets, falsy values included
\* (the empty mapping is among them).
SecretMaps ==
    LET all == UNION {SecretVals(k) : k \in SecretKeys}
    IN {m \in UNION {[D -> all] : D \in SUBSET SecretKeys} :
            \A k \in DOMAIN m : m[k] \in SecretVals(k)}

\* Server configurations an application hands over.
ConfigMaps ==
    {[app_id |-> "app", scope |-> "launch", registration_uri |-> "https://a/reg",
      authorize_uri |-> "https://a/auth", redirect_uri |-> "https://r/cb",
      token_uri |-> "https://a/token"],
     [app_id |-> "app", authorize_uri |-> "https://a/auth?aud=x&state=zz",
      scope |-> "", token_uri |-> ""]}

ImportMaps == SecretMaps \cup ConfigMaps

\* arg records whether the mapping given is empty and which of its keys
\* carry a truthy value.
from_state(st) ==
    /\ op' = "from_state"
    /\ arg' = [empty |-> DOMAIN st = {},
                truthy |-> {k \in DOMAIN st : truthy(st[k])}]
    /\ UNCHANGED auth_classes
    /\ callback' = NoCallback
    /\ posted' = NoPost
    /\ saved' = 0
    /\ IF DOMAIN st = {}
       THEN \* assert state
            /\ ret' = Raise("AssertionError")
            /\ UNCHANGED <<app_id, scope, _registration_uri, _authorize_uri,
                           _redirect_uri, _token_uri, auth_state,
                           access_token, refresh_token>>
       ELSE /\ ret' = ReturnNone
            /\ app_id' = or(get(st, "app_id"), app_id)
            /\ IF klass = "FHIRAuth"
               THEN UNCHANGED <<scope, _registration_uri, _authorize_uri,
                                _redirect_uri, _token_uri, auth_state,
                                access_token, refresh_token>>
               ELSE /\ scope' = or(get(st, "scope"), scope)
                    /\ _registration_uri' =
                         or(get(st, "registration_uri"), _registration_uri)
                    /\ _authorize_uri' =
                         or(get(st, "authorize_uri"), _authorize_uri)
                    /\ _redirect_uri' =
                         or(get(st, "redirect_uri"), _redirect_uri)
                    /\ _token_uri' = or(get(st, "token_uri"), _token_uri)
                    /\ auth_state' = or(get(st, "auth_state"), auth_state)
                    /\ access_token' =
                         or(get(st, "access_token"), access_token)
                    /\ refresh_token' =
                         or(get(st, "refresh_token"), refresh_token)
    /\ UNCHANGED <<klass, redeemed, shown>>
    /\ stale' = IF auth_state' # auth_state /\ get(stale, auth_state') = "reset"
                THEN mark(stale, auth_state', "imported") ELSE stale

(***************************************************************************)
(* signed_headers(headers)                                                 *)
(***************************************************************************)
\* The headers a caller passes: None, an empty mapping, one without and one
\* with an Authorization entry.
Headers ==
    {NoMap, Map(<<>>), Map([Accept |-> "json"]),
     Map([Authorization |-> "Bearer old"])}

signed_headers_mut(headers) ==
    /\ op' = "signed_headers"
    /\ callback' = NoCallback
    /\ posted' = NoPost
    /\ saved' = 0
    /\ IF klass = "FHIRAuth"
       THEN \* the base class has no signed_headers
            /\ ret' = Raise("AttributeError")
            /\ arg' = [headers |-> headers, after |-> headers]
       ELSE IF ~ready
       THEN /\ ret' = Raise("Cannot sign headers since I have no access token")
            /\ arg' = [headers |-> headers, after |-> headers]
       ELSE LET h == IF headers.none THEN <<>> ELSE headers.map
                signed == update(h, [Authorization |->
                                        "Bearer " \o format(access_token)])
            IN /\ ret' = Return("dict", signed)
               /\ arg' = [headers |-> headers,
                          after |-> IF headers.none THEN headers
                                    ELSE Map(signed)]
    /\ UNCHANGED <<klass, app_id, scope, _registration_uri, _authorize_uri,
                   _redirect_uri, _token_uri, auth_state, access_token,
                   refresh_token, auth_classes, redeemed, shown, stale>>

\* arg records the caller's mapping before and after the call: the code
\* assigns headers['Authorization'] on the object it was given.
signed_headers(headers) ==
    /\ op' = "signed_headers"
    /\ callback' = NoCallback
    /\ posted' = NoPost
    /\ saved' = 0
    /\ IF klass = "FHIRAuth"
       THEN \* the base class has no signed_headers
            /\ ret' = Raise("AttributeError")
            /\ arg' = [headers |-> headers, after |-> headers]
       ELSE IF ~can_sign_headers
       THEN /\ ret' = Raise("Cannot sign headers since I have no access token")
            /\ arg' = [headers |-> headers, after |-> headers]
       ELSE LET h == IF headers.none THEN <<>> ELSE headers.map
                signed == update(h, [Authorization |->
                                        "Bearer " \o format(access_token)])
            IN /\ ret' = Return("dict", signed)
               /\ arg' = [headers |-> headers,
                          after |-> IF headers.none THEN headers
                                    ELSE Map(signed)]
    /\ UNCHANGED <<klass, app_id, scope, _registration_uri, _authorize_uri,
                   _redirect_uri, _token_uri, auth_state, access_token,
                   refresh_token, auth_classes, redeemed, shown, stale>>

(***************************************************************************)
(* FHIRAuth.register() -- a class method, called as cls.register()         *)
(***************************************************************************)
register_mut(cls) ==
    /\ op' = "register"
    /\ arg' = [cls |-> cls]
    /\ callback' = NoCallback
    /\ posted' = NoPost
    /\ saved' = 0
    /\ IF ~truthy(auth_type(cls))
       THEN /\ ret' = Raise("Class does not specify the auth_type it supports")
            /\ UNCHANGED auth_classes
       ELSE /\ auth_classes' = update(auth_classes,
                                      [t \in {auth_type(cls)} |-> cls])
            /\ ret' = ReturnNone
    /\ UNCHANGED <<klass, app_id, scope, _registration_uri, _authorize_uri,
                   _redirect_uri, _token_uri, auth_state, access_token,
                   refresh_token, redeemed, shown, stale>>

register(cls) ==
    /\ op' = "register"
    /\ arg' = [cls |-> cls]
    /\ callback' = NoCallback
    /\ posted' = NoPost
    /\ saved' = 0
    /\ IF ~truthy(auth_type(cls))
       THEN /\ ret' = Raise("Class does not specify the auth_type it supports")
            /\ UNCHANGED auth_classes
       ELSE IF auth_type(cls) \notin DOMAIN auth_classes
       THEN /\ auth_classes' = update(auth_classes,
                                      [t \in {auth_type(cls)} |-> cls])
            /\ ret' = ReturnNone
       ELSE IF auth_classes[auth_type(cls)] # cls
       THEN /\ ret' = Raise("Class is already registered for authorization type")
            /\ UNCHANGED auth_classes
       ELSE /\ ret' = ReturnNone
            /\ UNCHANGED auth_classes
    /\ UNCHANGED <<klass, app_id, scope, _registration_uri, _authorize_uri,
                   _redirect_uri, _token_uri, auth_state, access_token,
                   refresh_token, redeemed, shown, stale>>

(***************************************************************************)
(* FHIRAuth.create(auth_type, server, state) and __init__(server, state)   *)
(***************************************************************************)
\* The auth_type arguments: None, empty, the two registered tags, and two
\* further tags.
Tags == {None, "", "none", "oauth2", "basic", "saml"}

\* The state arguments: None, the mappings from_state is called with, and
\* the state the current strategy exports.
CreateStates == {NoMap} \cup {Map(m) : m \in ImportMaps} \cup {Map(state)}

\* create(tag, server, st) with a server at hand; tag is the auth_type
\* argument.  The strategy the
\* application holds becomes the new instance when create returns one, and
\* stays the one it was when create raises.
create(tag, st) ==
    LET resolved == IF ~truthy(tag) THEN "none" ELSE tag
    IN
    /\ op' = "create"
    /\ arg' = [auth_type |-> tag, state |-> st]
    /\ callback' = NoCallback
    /\ posted' = NoPost
    /\ saved' = 0
    /\ UNCHANGED <<auth_classes, stale>>
    /\ IF resolved \notin DOMAIN auth_classes
       THEN /\ ret' = Raise("No class registered for authorization type")
            /\ UNCHANGED <<klass, app_id, scope, _registration_uri,
                           _authorize_uri, _redirect_uri, _token_uri,
                           auth_state, access_token, refresh_token,
                           redeemed, shown>>
       ELSE IF ~st.none /\ DOMAIN st.map = {}
       THEN \* __init__ calls from_state(state), which asserts state
            /\ ret' = Raise("AssertionError")
            /\ UNCHANGED <<klass, app_id, scope, _registration_uri,
                           _authorize_uri, _redirect_uri, _token_uri,
                           auth_state, access_token, refresh_token,
                           redeemed, shown>>
       ELSE LET cls == auth_classes[resolved]
                m == IF st.none THEN <<>> ELSE st.map
                \* FHIROAuth2Auth sets its instance variables and hydrates
                \* them; any other class is FHIRAuth or inherits from it.
                own(k) == IF cls = "FHIROAuth2Auth"
                          THEN or(get(m, k), None) ELSE None
            IN /\ ret' = Return("instance", cls)
               /\ klass' = cls
               /\ app_id' = or(get(m, "app_id"), None)
               /\ scope' = own("scope")
               /\ _registration_uri' = own("registration_uri")
               /\ _authorize_uri' = own("authorize_uri")
               /\ _redirect_uri' = own("redirect_uri")
               /\ _token_uri' = own("token_uri")
               /\ auth_state' = own("auth_state")
               /\ access_token' = own("access_token")
               /\ refresh_token' = own("refresh_token")
               /\ redeemed' = {}
               /\ shown' = None

Next ==
    \/ reset
    \/ authorize_uri
    \/ \E url \in CallbackUrls : handle_callback(url)
    \/ reauthorize
    \/ \E st \in ImportMaps : from_state(st)
    \/ \E headers \in Headers : signed_headers(headers)
    \/ \E tag \in DOMAIN Loaded : create(tag, Map(state))

Spec == Init /\ [][Next]_vars

(***************************************************************************)
(* The registry on its own: register() and create() from the class body's  *)
(* empty auth_classes, before any strategy exists.                         *)
(***************************************************************************)
InitRegistry ==
    /\ klass = None
    /\ app_id = None
    /\ scope = None
    /\ _registration_uri = None
    /\ _authorize_uri = None
    /\ _redirect_uri = None
    /\ _token_uri = None
    /\ auth_state = None
    /\ access_token = None
    /\ refresh_token = None
    /\ auth_classes = NoClasses
    /\ op = "import"
    /\ arg = NoArg
    /\ ret = ReturnNone
    /\ posted = NoPost
    /\ saved = 0
    /\ callback = NoCallback
    /\ redeemed = {}
    /\ shown = None
    /\ stale = NoStale

NextRegistry ==
    \/ \E cls \in Classes : register(cls)
    \/ \E tag \in Tags, st \in CreateStates : create(tag, st)

SpecRegistry == InitRegistry /\ [][NextRegistry]_vars

(***************************************************************************)
(* The authorize/callback cycle of one OAuth2 strategy with the history of *)
(* its nonces followed: reset(), reads of authorize_uri, callbacks that    *)
(* carry a nonce and a code, imports of a persisted nonce, reauthorize().  *)
(***************************************************************************)
\* Callback URLs with a code and a state parameter, and one without state.
NonceCallbacks ==
    {[kind |-> "str", query |-> <<<<"state", n>>, <<"code", c>>>>] :
         n \in Nonces, c \in Codes}
    \cup {[kind |-> "str", query |-> <<<<"code", c>>>>] : c \in Codes}

\* Persisted states that carry a nonce.
NonceImports == {[k \in {"auth_state"} |-> n] : n \in Nonces}

InitReset ==
    /\ klass = "FHIROAuth2Auth"
    /\ app_id = None
    /\ scope = None
    /\ _registration_uri = None
    /\ _authorize_uri = None
    /\ _redirect_uri = None
    /\ _token_uri = None
    /\ auth_state = None
    /\ access_token = None
    /\ refresh_token = None
    /\ auth_classes = Loaded
    /\ op = "create"
    /\ arg = [auth_type |-> auth_type(klass), state |-> NoMap]
    /\ ret = Return("instance", klass)
    /\ posted = NoPost
    /\ saved = 0
    /\ callback = NoCallback
    /\ redeemed = {}
    /\ shown = None
    /\ stale = [n \in Nonces |-> "-"]

NextReset ==
    \/ reset
    \/ authorize_uri
    \/ \E url \in NonceCallbacks : handle_callback(url)
    \/ \E st \in NonceImports : from_state(st)
    \/ reauthorize

SpecReset == InitReset /\ [][NextReset]_vars

(***************************************************************************)
(* Properties.                                                             *)
(***************************************************************************)
OAuth2 == klass = "FHIROAuth2Auth"

\* The state parameter among args is absent or is not the nonce want.
StateAbsentOrDiffers(args, want) ==
    get(args, "state") = None \/ get(args, "state") # want

AccessDeniedMsg ==
    "The resource owner or authorization server denied the request."

ConsumedKeys == {"access_token", "expires_in", "refresh_token"}

\* C1 as stated: a callback whose state parameter is absent or differs from
\* the pending auth_state always fails with the state-mismatch error and
\* leaves access_token unchanged.
C1_AlwaysStateMismatch ==
    [][(/\ OAuth2
        /\ op' = "handle_callback"
        /\ callback'.kind = "str"
        /\ StateAbsentOrDiffers(callback'.args, auth_state))
       => (/\ ret' = Raise(InvalidStateMsg)
           /\ access_token' = access_token)]_vars

\* C1 amended: such a callback always fails, never reaches the token
\* exchange and leaves access_token (and refresh_token) unchanged; the error
\* is the provider's error message when the callback carries an error
\* indication, and the state-mismatch error otherwise.
C1_StateMismatchFails ==
    [][(/\ OAuth2
        /\ op' = "handle_callback"
        /\ callback'.kind = "str"
        /\ StateAbsentOrDiffers(callback'.args, auth_state))
       => (/\ ret'.kind = "raise"
           /\ ({"error", "error_description"} \cap DOMAIN callback'.args = {})
                => ret'.val = InvalidStateMsg
           /\ ({"error", "error_description"} \cap DOMAIN callback'.args # {})
                => ret'.val # InvalidStateMsg
           /\ ~posted'.made
           /\ access_token' = access_token
           /\ refresh_token' = refresh_token)]_vars

\* C1 witness: a callback was refused for its state while a nonce is pending
\* and a token is held.
C1_Witness ==
    /\ OAuth2
    /\ op = "handle_callback"
    /\ callback.kind = "str"
    /\ get(callback.args, "state") \in Nonces \ {auth_state}
    /\ "code" \in DOMAIN callback.args
    /\ ret = Raise(InvalidStateMsg)
    /\ auth_state # None
    /\ access_token = "t1"

\* C2 as stated: for the OAuth2 strategy ready is true if and only if
\* access_token is non-null.
C2_ReadyIffToken == OAuth2 => (ready <=> access_token # None)

\* C3 as stated: for every strategy the registry creates, the base one and
\* the OAuth2 one, can_sign_headers() equals ready in every reachable state.
C3_CanSignEqualsReady == can_sign_headers = ready

\* C4 as stated: when handle_callback or reauthorize fails during the
\* exchange (post_as_form raises, or its response lacks access_token),
\* access_token and refresh_token keep their values.
C4_FailedExchangeKeepsTokens ==
    [][(/\ OAuth2
        /\ op' \in {"handle_callback", "reauthorize"}
        /\ posted'.made
        /\ ret'.kind = "raise")
       => (/\ access_token' = access_token
           /\ refresh_token' = refresh_token)]_vars

\* C5 as stated: once a callback has succeeded against a nonce, the state
\* parameter of any later authorize_uri and the state any later successful
\* callback is accepted with differ from that nonce.
C5_NonceNeverReused ==
    [][/\ (op' = "authorize_uri" /\ ret'.kind = "url")
            => ret'.val.params["state"] \notin redeemed
       /\ (op' = "handle_callback" /\ ret'.kind = "dict")
            => posted'.params["state"] \notin redeemed]_vars

\* C6 as stated: two reads of authorize_uri with no reset or callback in
\* between return the same state parameter, which is the stored auth_state.
C6_SameStateTwice ==
    [][(OAuth2 /\ op' = "authorize_uri" /\ ret'.kind = "url")
       => (/\ ret'.val.params["state"] = auth_state'
           /\ shown # None => ret'.val.params["state"] = shown)]_vars

\* C6 amended: the state parameter of every URL read is the stored
\* auth_state, and two reads with no reset or callback in between return the
\* same state parameter unless a from_state in between replaced the pending
\* auth_state.
C6_SameStateWhilePending ==
    [][(OAuth2 /\ op' = "authorize_uri" /\ ret'.kind = "url")
       => (/\ ret'.val.params["state"] = auth_state'
           /\ (shown # None /\ auth_state = shown)
                => ret'.val.params["state"] = shown)]_vars

\* C6 witness: a second read in a row returned the pending nonce.
C6_Witness ==
    /\ OAuth2
    /\ op = "authorize_uri"
    /\ ret.kind = "url"
    /\ saved = 0
    /\ shown = auth_state
    /\ ret.val.params["state"] = auth_state

\* C7 as stated: a callback containing error=access_denied fails with the
\* canned message of that code and never invokes the token exchange,
\* whatever else the callback carries.
C7_AccessDeniedCanned ==
    (/\ OAuth2
     /\ op = "handle_callback"
     /\ callback.kind = "str"
     /\ get(callback.args, "error") = "access_denied")
    => (ret = Raise(AccessDeniedMsg) /\ ~posted.made)

\* C7 amended: a callback whose error parameter is access_denied always
\* fails without invoking the token exchange; its message is the canned
\* message of that code when the callback carries no error_description, and
\* the error_description otherwise.
C7_AccessDeniedFails ==
    (/\ OAuth2
     /\ op = "handle_callback"
     /\ callback.kind = "str"
     /\ get(callback.args, "error") = "access_denied")
    => (/\ ret.kind = "raise"
        /\ ~posted.made
        /\ "error_description" \notin DOMAIN callback.args
             => ret.val = AccessDeniedMsg
        /\ "error_description" \in DOMAIN callback.args
             => ret.val = replace_plus(callback.args["error_description"]))

\* C7 witness: a callback carrying the pending nonce and error=access_denied
\* failed with the canned message.
C7_Witness ==
    /\ OAuth2
    /\ op = "handle_callback"
    /\ get(callback.args, "error") = "access_denied"
    /\ auth_state \in Nonces
    /\ get(callback.args, "state") = auth_state
    /\ ret = Raise(AccessDeniedMsg)
    /\ ~posted.made

\* C8: when post_as_form returns a response with an access_token, the
\* exchange succeeds, access_token is the response's, and the launch context
\* returned is the response without access_token, expires_in and
\* refresh_token, every other key kept with its value.
C8_LaunchContext ==
    (OAuth2 /\ posted.made)
    => /\ ret.kind = "dict"
          <=> (~posted.reply.raised
               /\ "access_token" \in DOMAIN posted.reply.resp)
       /\ ret.kind = "dict"
          => LET resp == posted.reply.resp
             IN /\ access_token = resp["access_token"]
                /\ DOMAIN ret.val = (DOMAIN resp) \ ConsumedKeys
                /\ \A k \in DOMAIN ret.val : ret.val[k] = resp[k]

\* C8 witness: a response with all three consumed keys and a patient gave
\* the launch context {patient}.
C8_Witness ==
    /\ OAuth2
    /\ posted.made
    /\ ret.kind = "dict"
    /\ DOMAIN posted.reply.resp =
         {"access_token", "expires_in", "refresh_token", "patient"}
    /\ ret.val = [patient |-> "123"]
    /\ access_token = "t1"

\* C9: reauthorize() with no refresh_token returns None, does not call
\* post_as_form or should_save_state, and changes no field.
C9_ReauthorizeWithoutRefresh ==
    [][(OAuth2 /\ refresh_token = None /\ op' = "reauthorize")
       => (/\ ret' = ReturnNone
           /\ ~posted'.made
           /\ saved' = 0
           /\ UNCHANGED fields)]_vars

\* C9 witness: reauthorize returned None on a strategy that holds an access
\* token but no refresh token.
C9_Witness ==
    /\ OAuth2
    /\ op = "reauthorize"
    /\ ret = ReturnNone
    /\ refresh_token = None
    /\ access_token = "t1"

\* C10: reset() sets access_token and auth_state to None, so ready is
\* false, and the exported state keeps refresh_token, scope, app_id and the
\* four endpoint URIs as they were.
C10_ResetFrame ==
    [][(OAuth2 /\ op' = "reset")
       => (/\ access_token' = None
           /\ auth_state' = None
           /\ ~ready'
           /\ DOMAIN state' = (DOMAIN state) \ {"access_token", "auth_state"}
           /\ \A k \in DOMAIN state' : state'[k] = state[k]
           /\ UNCHANGED <<refresh_token, scope, app_id, _registration_uri,
                          _authorize_uri, _redirect_uri, _token_uri>>)]_vars

\* C10 witness: a reset of a strategy that had been authorized, with a
\* refresh token and endpoints still in place afterwards.
C10_Witness ==
    /\ OAuth2
    /\ op = "reset"
    /\ redeemed # {}
    /\ refresh_token = "r1"
    /\ _token_uri # None
    /\ access_token = None
    /\ auth_state = None

\* C11 as stated: a successful token exchange whose response carries an
\* access_token but no refresh_token leaves the refresh_token held before
\* the call in place.
C11_RefreshTokenKept ==
    [][(/\ OAuth2
        /\ posted'.made
        /\ ret'.kind = "dict"
        /\ "refresh_token" \notin DOMAIN posted'.reply.resp)
       => refresh_token' = refresh_token]_vars

\* The field an exported secret key is read from.
SecretField(k) ==
    CASE k = "auth_state" -> auth_state
      [] k = "access_token" -> access_token
      [] k = "refresh_token" -> refresh_token

\* C14: in every reachable state the exported state of an OAuth2 strategy
\* contains auth_state, access_token or refresh_token exactly when the
\* corresponding field is not None, and never with the value None.
C14_SecretsExportedIffHeld ==
    OAuth2 =>
        \A k \in SecretKeys :
            /\ (k \in DOMAIN state) <=> (SecretField(k) # None)
            /\ (k \in DOMAIN state) => (state[k] # None /\ state[k] = SecretField(k))

\* C14's case: after a refresh the strategy holds an access_token but
\* neither a refresh_token nor a nonce, and exports just that one secret.
C14_Witness ==
    /\ OAuth2
    /\ op = "reauthorize"
    /\ ret.kind = "dict"
    /\ access_token # None
    /\ refresh_token = None
    /\ auth_state = None
    /\ DOMAIN state \cap SecretKeys = {"access_token"}

\* The callback's arguments carry an OAuth2 error indication.
HasErrorIndication(args) ==
    "error" \in DOMAIN args \/ "error_description" \in DOMAIN args

\* The messages of the checks other than the provider-error check.
OtherCheckMsgs ==
    {"No callback URL received", "Invalid callback URL",
     InvalidStateMsg, "Did not receive a code"}

\* C19: handle_callback raises the error of the first failing check in the
\* order None/unparsable URL, provider error indication, state match, code
\* presence; an error indication wins over a state mismatch, and a matching
\* state without a code raises the missing-code error with no post_as_form.
C19_CheckOrder ==
    (OAuth2 /\ op = "handle_callback") =>
        IF callback.kind = "None"
        THEN ret = Raise("No callback URL received") /\ ~posted.made
        ELSE IF callback.kind = "unparsable"
        THEN ret = Raise("Invalid callback URL") /\ ~posted.made
        ELSE IF HasErrorIndication(callback.args)
        THEN /\ ret.kind = "raise"
             /\ ret.val \notin OtherCheckMsgs
             /\ ~posted.made
        ELSE IF StateAbsentOrDiffers(callback.args, auth_state)
        THEN ret = Raise(InvalidStateMsg) /\ ~posted.made
        ELSE IF "code" \notin DOMAIN callback.args
        THEN ret = Raise("Did not receive a code") /\ ~posted.made
        ELSE posted.made

\* C19's case: a callback with an error indication and a state that differs
\* from the pending nonce has been handled.
C19_Witness ==
    /\ OAuth2
    /\ op = "handle_callback"
    /\ callback.kind = "str"
    /\ auth_state \in Nonces
    /\ "error" \in DOMAIN callback.args
    /\ get(callback.args, "state") \in Nonces \ {auth_state}
    /\ ret = Raise("Authorization error: teapot.")

\* C20: every post_as_form goes to the configured token_uri; the initial
\* exchange posts exactly client_id, code, grant_type "authorization_code",
\* redirect_uri and state (the pending nonce), with no scope key; a refresh
\* posts exactly client_id, grant_type "refresh_token" and the refresh_token
\* held when reauthorize was called.
C20_PostedParams ==
    [][(OAuth2 /\ posted'.made) =>
          /\ posted'.uri = _token_uri
          /\ op' \in {"handle_callback", "reauthorize"}
          /\ (op' = "handle_callback") =>
                 /\ posted'.params =
                        [client_id |-> app_id,
                         code |-> callback'.args["code"],
                         grant_type |-> "authorization_code",
                         redirect_uri |-> _redirect_uri,
                         state |-> auth_state]
                 /\ auth_state # None
                 /\ auth_state = callback'.args["state"]
          /\ (op' = "reauthorize") =>
                 /\ posted'.params =
                        [client_id |-> app_id,
                         grant_type |-> "refresh_token",
                         refresh_token |-> refresh_token]
                 /\ refresh_token # None]_vars

\* C20's case: a code was exchanged by a strategy whose scope is set.
C20_Witness ==
    /\ OAuth2
    /\ op = "handle_callback"
    /\ posted.made
    /\ truthy(scope)
    /\ DOMAIN posted.params =
           {"client_id", "code", "grant_type", "redirect_uri", "state"}

\* C15: should_save_state is invoked once on a step that mints a nonce and
\* not at all on any other step, so that over any sequence of operations
\* the invocations equal the nonces minted; a read of authorize_uri while a
\* nonce is pending invokes it zero times.
C15_HookOncePerMint ==
    [][LET minted == op' = "authorize_uri" /\ OAuth2
                     /\ auth_state' # auth_state
       IN /\ saved' = IF minted THEN 1 ELSE 0
          /\ minted => auth_state = None /\ auth_state' \in Nonces]_vars

\* C15's case: authorize_uri was read while a nonce was pending, and the
\* hook was not invoked.
C15_Witness ==
    /\ OAuth2
    /\ op = "authorize_uri"
    /\ ret.kind = "url"
    /\ auth_state \in Nonces
    /\ saved = 0

\* C18: signed_headers(headers) on an OAuth2 strategy raises the
\* no-access-token error exactly when access_token is None; otherwise it
\* returns the supplied mapping (an empty one for None) with Authorization
\* set to "Bearer " followed by access_token, every entry under another key
\* being kept; the call changes no field of the strategy.
C18_SignedHeaders ==
    [][(OAuth2 /\ op' = "signed_headers") =>
          LET given == IF arg'.headers.none THEN <<>> ELSE arg'.headers.map
          IN /\ (ret'.kind = "raise") <=> (access_token = None)
             /\ (ret'.kind = "raise") =>
                    ret'.val = "Cannot sign headers since I have no access token"
             /\ (access_token # None) =>
                    /\ ret'.kind = "dict"
                    /\ DOMAIN ret'.val = DOMAIN given \cup {"Authorization"}
                    /\ ret'.val["Authorization"] = "Bearer " \o access_token
                    /\ \A k \in DOMAIN given \ {"Authorization"} :
                           ret'.val[k] = given[k]
             /\ fields' = fields]_vars

\* C18's case: headers with an Accept entry were signed with token t1.
C18_Witness ==
    /\ OAuth2
    /\ op = "signed_headers"
    /\ arg.headers = Map([Accept |-> "json"])
    /\ access_token = "t1"
    /\ ret = Return("dict", [Accept |-> "json", Authorization |-> "Bearer t1"])

\* The keys of the persisted state and the instance variable each is
\* imported into.
StateKeys ==
    {"app_id", "scope", "registration_uri", "authorize_uri", "redirect_uri",
     "token_uri", "auth_state", "access_token", "refresh_token"}

Field(k) ==
    CASE k = "app_id" -> app_id
      [] k = "scope" -> scope
      [] k = "registration_uri" -> _registration_uri
      [] k = "authorize_uri" -> _authorize_uri
      [] k = "redirect_uri" -> _redirect_uri
      [] k = "token_uri" -> _token_uri
      [] k = "auth_state" -> auth_state
      [] k = "access_token" -> access_token
      [] k = "refresh_token" -> refresh_token

\* C13 as stated: from_state does not fail on a mapping missing any subset
\* of its keys, the empty mapping included; a field whose key is absent or
\* falsy in the mapping keeps its value, and no field that is not None
\* becomes None.
C13_ImportTolerant ==
    [][(op' = "from_state") =>
          /\ ret'.kind # "raise"
          /\ \A k \in StateKeys \ arg'.truthy : Field(k)' = Field(k)
          /\ \A k \in StateKeys : Field(k) # None => Field(k)' # None]_vars

\* C12 as stated: for an OAuth2 strategy that completed a token exchange
\* (it holds an access_token), a new OAuth2 strategy created from its
\* exported state has the same ready, scope, app_id, endpoint URIs,
\* auth_state, access_token and refresh_token.
C12_RoundTrip ==
    [][(/\ OAuth2
        /\ access_token # None
        /\ op' = "create"
        /\ arg' = [auth_type |-> "oauth2", state |-> Map(state)])
       => (/\ ret' = Return("instance", "FHIROAuth2Auth")
           /\ ready' = ready
           /\ \A k \in StateKeys : Field(k)' = Field(k))]_vars

ConflictMsg == "Class is already registered for authorization type"

\* C16: register() of a class whose auth_type is bound to a different class
\* raises the already-registered error and leaves auth_classes unchanged;
\* register() of the class already bound to its auth_type returns without
\* changing anything; on no step does a bound auth_type lose or change its
\* class.
C16_RegisterKeepsBindings ==
    [][/\ (op' = "register" /\ truthy(auth_type(arg'.cls))
           /\ auth_type(arg'.cls) \in DOMAIN auth_classes) =>
              /\ auth_classes' = auth_classes
              /\ ret' = IF auth_classes[auth_type(arg'.cls)] # arg'.cls
                        THEN Raise(ConflictMsg) ELSE ReturnNone
       /\ \A t \in DOMAIN auth_classes :
              t \in DOMAIN auth_classes' /\ auth_classes'[t] = auth_classes[t]
      ]_vars

\* C16's case: a second class declaring 'oauth2' was registered after
\* FHIROAuth2Auth and was refused.
C16_Witness ==
    /\ op = "register"
    /\ arg.cls = "OtherOAuth2Auth"
    /\ ret = Raise(ConflictMsg)
    /\ auth_classes = Loaded

\* The keys a class hydrates from the state it is constructed with.
HydratedKeys(cls) ==
    IF cls = "FHIROAuth2Auth" THEN StateKeys ELSE {"app_id"}

\* C17 as stated: create resolves an empty or None auth_type to 'none';
\* it raises the no-class-registered error when the resolved auth_type is
\* not registered; otherwise it returns an instance of the registered
\* class hydrated from the given state, and an OAuth2 strategy created
\* with state None is not ready.
C17_Create ==
    [][(op' = "create") =>
          LET tag == arg'.auth_type
              st == arg'.state
              resolved == IF tag = None \/ tag = "" THEN "none" ELSE tag
          IN IF resolved \notin DOMAIN auth_classes
             THEN /\ ret' = Raise("No class registered for authorization type")
                  /\ fields' = fields
             ELSE /\ ret' = Return("instance", auth_classes[resolved])
                  /\ klass' = auth_classes[resolved]
                  /\ \A k \in StateKeys :
                         Field(k)' =
                             IF st.none \/ k \notin HydratedKeys(klass')
                             THEN None ELSE or(get(st.map, k), None)
                  /\ (st.none /\ klass' = "FHIROAuth2Auth") => ~ready'
      ]_vars

\* C21: handle_callback and reauthorize leave auth_state as it was, whether
\* they return or raise; among the operations on a strategy (create builds
\* another one) only reset() takes auth_state from a nonce to None.
C21_OnlyResetClearsNonce ==
    [][/\ (op' \in {"handle_callback", "reauthorize"}) =>
              auth_state' = auth_state
       /\ (op' # "create" /\ auth_state # None /\ auth_state' = None) =>
              op' = "reset"]_vars

\* C21's case: a callback was exchanged successfully and the nonce it was
\* checked against is still the pending auth_state.
C21_Witness ==
    /\ OAuth2
    /\ op = "handle_callback"
    /\ ret.kind = "dict"
    /\ posted.made
    /\ auth_state \in Nonces
    /\ auth_state = callback.args["state"]

\* C22 as stated: after signed_headers(headers) returned for a mapping that
\* is not None, the caller's mapping has the entries it had before the
\* call; no Authorization entry was added to it.
C22_CallerHeadersUntouched ==
    (/\ OAuth2
     /\ op = "signed_headers"
     /\ ret.kind = "dict"
     /\ ~arg.headers.none)
    => arg.after = arg.headers

\* C23: while auth_state is None, handle_callback raises for every URL,
\* whether or not it carries a state parameter, makes no post_as_form and
\* leaves access_token and refresh_token as they were; so a callback that
\* returns was handled with a nonce pending.
C23_NoNonceNoExchange ==
    [][(op' = "handle_callback" /\ auth_state = None) =>
          /\ ret'.kind = "raise"
          /\ ~posted'.made
          /\ access_token' = access_token
          /\ refresh_token' = refresh_token]_vars

\* C23's case: a callback with a state and a code reached an OAuth2 strategy
\* that has no nonce pending, and was refused by the state check.
C23_Witness ==
    /\ OAuth2
    /\ op = "handle_callback"
    /\ auth_state = None
    /\ callback.kind = "str"
    /\ get(callback.args, "state") \in Nonces
    /\ get(callback.args, "code") \in Codes
    /\ ret = Raise(InvalidStateMsg)

\* The nonce a callback carried.
CallbackNonce == get(callback.args, "state")

\* C24 as stated: a callback that carries a nonce which was pending when
\* reset() was called never succeeds afterwards (a nonce minted anew counts
\* as another nonce, minted nonces being distinct).
C24_StaleNonceNeverAccepted ==
    (OAuth2 /\ op = "handle_callback" /\ ret.kind = "dict")
    => stale[CallbackNonce] = "-"

\* C24 amended: such a callback succeeds only if from_state() has imported
\* that nonce again since the reset; without such an import it fails,
\* whether or not authorize_uri has been read again.
C24_StaleNonceNeedsImport ==
    (OAuth2 /\ op = "handle_callback" /\ ret.kind = "dict")
    => stale[CallbackNonce] # "reset"

\* C24's case: after a reset and another read of authorize_uri, a callback
\* carrying the nonce from before the reset, with a code, was refused.
C24_Witness ==
    /\ OAuth2
    /\ op = "handle_callback"
    /\ CallbackNonce \in Nonces
    /\ get(callback.args, "code") \in Codes
    /\ stale[CallbackNonce] = "reset"
    /\ auth_state \in Nonces \ {CallbackNonce}
    /\ ret = Raise(InvalidStateMsg)

\* C25 as stated: reauthorize() called right after reset() on an OAuth2
\* strategy that holds a refresh_token performs the refresh exchange, and
\* when the response carries an access_token the strategy is ready, with
\* auth_state still None.
C25_ReauthorizeAfterReset ==
    [][(/\ OAuth2
        /\ op = "reset"
        /\ refresh_token # None
        /\ op' = "reauthorize")
       => (/\ posted'.made
           /\ posted'.params = _reauthorize_params
           /\ (~posted'.reply.raised
               /\ "access_token" \in DOMAIN posted'.reply.resp)
              => (/\ ret'.kind = "dict"
                  /\ ready'
                  /\ auth_state' = None))]_vars
====
